---- MODULE Spec2Model ----
(***************************************************************************)
(* A model of src/scripts/gpx/gpx_split.py: the GPX splitter.  One run of  *)
(* _main parses a track file, streams its points through Splitter.split    *)
(* and hands every completed segment to Writer.write.                      *)
(*                                                                         *)
(* Strings are sequences of one-character strings.  A point is a record    *)
(* whose id is the identity of the parsed point object (its position in    *)
(* the file); the same object can sit in two output segments.              *)
(***************************************************************************)
EXTENDS Integers, Sequences, FiniteSets, TLC

VARIABLES
    source,              \* _main: the SOURCE argument
    max_segment_points,  \* _main: the --points option
    debug,               \* logger.isEnabledFor(logging.DEBUG), set by --log
    gpx,                 \* the parsed file: tracks -> segments -> points
    pc,                  \* where the run is
    cursor,              \* the nested for loops: <<track, segment, point>> last read
    track_segment,       \* split: the points of the current GPXTrackSegment
    output_count,        \* split: the counter of the next output file
    final,               \* whether __write was called from after the loops
    handed,              \* the calls of Writer.write of this run, in order
    disk,                \* dest_dir: file name -> points of the file
    logged,              \* the "Track length" lines of this run
    err,                 \* the exception that ended the run, or "none"
    tl_points,           \* Distance.track_length called alone: its argument
    tl_result            \* Distance.track_length called alone: its result

vars == <<source, max_segment_points, debug, gpx, pc, cursor, track_segment,
          output_count, final, handed, disk, logged, err, tl_points, tl_result>>

----------------------------------------------------------------------------
(* Bounds of the model *)

\* the longest description of an input file, in tokens (see MakeGpx)
MaxTokens == 7

\* the largest --points option tried; the smallest is 0
MaxSegmentPoints == 3

\* the longest point list Distance.track_length is called with alone
MaxLen == 3

\* click's default of --points and of split's max_segment_points
DefaultPoints == 500

----------------------------------------------------------------------------
(* Input files *)

\* the n-th point object of a file; bad is the position of the point with the
\* invalid latitude 200, 0 for none
Point(n, bad) ==
    [id |-> n,
     latitude |-> IF n = bad THEN 200 ELSE 40 + (n % 3),
     longitude |-> n % 5]

\* A file is described by tokens: "T" opens a track, "S" opens a segment in
\* the last track, "P" is a point in the last segment.
Tokens == {"T", "S", "P"}

RECURSIVE MakeGpxFrom(_, _, _, _, _)
MakeGpxFrom(toks, i, g, n, bad) ==
    IF i > Len(toks) THEN g
    ELSE LET t == Len(g) IN
         CASE toks[i] = "T" -> MakeGpxFrom(toks, i + 1, Append(g, <<>>), n, bad)
           [] toks[i] = "S" ->
                MakeGpxFrom(toks, i + 1, [g EXCEPT ![t] = Append(@, <<>>)], n, bad)
           [] toks[i] = "P" ->
                MakeGpxFrom(toks, i + 1,
                    [g EXCEPT ![t][Len(g[t])] = Append(@, Point(n + 1, bad))],
                    n + 1, bad)

MakeGpx(toks, bad) == MakeGpxFrom(toks, 1, <<>>, 0, bad)

RECURSIVE WellFormedFrom(_, _, _, _)
WellFormedFrom(toks, i, inTrack, inSeg) ==
    IF i > Len(toks) THEN TRUE
    ELSE CASE toks[i] = "T" -> WellFormedFrom(toks, i + 1, TRUE, FALSE)
           [] toks[i] = "S" -> inTrack /\ WellFormedFrom(toks, i + 1, TRUE, TRUE)
           [] toks[i] = "P" -> inSeg /\ WellFormedFrom(toks, i + 1, TRUE, TRUE)

TokenSeqs == UNION {[1..n -> Tokens] : n \in 0..MaxTokens}

Shapes == {toks \in TokenSeqs : WellFormedFrom(toks, 1, FALSE, FALSE)}

NumPoints(toks) == Cardinality({i \in 1..Len(toks) : toks[i] = "P"})

\* Scenario A: three tracks of one segment each, DefaultPoints + 100 points
ScenarioALengths ==
    {<<200, 200, DefaultPoints - 300>>,
     <<1, DefaultPoints, 99>>,
     <<DefaultPoints - 1, 2, 99>>}

ScenarioAGpx(lens) ==
    [t \in 1..3 |->
        LET off == IF t = 1 THEN 0 ELSE IF t = 2 THEN lens[1] ELSE lens[1] + lens[2]
        IN << [p \in 1..lens[t] |-> Point(off + p, 0)] >>]

Sources ==
    {<<"d", "/", "a", ".", "g", "p", "x">>,
     <<"b", ".", "x">>}

----------------------------------------------------------------------------
(* Names of the output files *)

RECURSIVE LastSlash(_, _)
LastSlash(s, i) ==
    IF i = 0 THEN 0 ELSE IF s[i] = "/" THEN i ELSE LastSlash(s, i - 1)

\* Path(source).name
PathName(s) == SubSeq(s, LastSlash(s, Len(s)) + 1, Len(s))

GpxExt == <<".", "g", "p", "x">>

RECURSIVE FirstOccurrence(_, _, _)
FirstOccurrence(s, sep, i) ==
    IF i + Len(sep) - 1 > Len(s) THEN 0
    ELSE IF SubSeq(s, i, i + Len(sep) - 1) = sep THEN i
    ELSE FirstOccurrence(s, sep, i + 1)

\* name.rsplit('.gpx')[0]: what stands before the first '.gpx', or all of it
RsplitHead(s) ==
    LET i == FirstOccurrence(s, GpxExt, 1)
    IN IF i = 0 THEN s ELSE SubSeq(s, 1, i - 1)

Digit(d) == CASE d = 0 -> "0" [] d = 1 -> "1" [] d = 2 -> "2" [] d = 3 -> "3"
              [] d = 4 -> "4" [] d = 5 -> "5" [] d = 6 -> "6" [] d = 7 -> "7"
              [] d = 8 -> "8" [] d = 9 -> "9"

\* str(count), count >= 0
RECURSIVE str(_)
str(count) ==
    IF count < 10 THEN <<Digit(count)>>
    ELSE Append(str(count \div 10), Digit(count % 10))

\* file_name(name)(count)
file_name(name, count) == name \o <<"_">> \o str(count)

\* next_name(count)
next_name(count) == file_name(RsplitHead(PathName(source)), count)

----------------------------------------------------------------------------
(* Distance *)

\* hs.haversine(p1, p2) on (latitude, longitude) pairs: it raises ValueError
\* when a coordinate is out of range; the distance itself is an integer
\* stand-in for the great-circle distance.
Abs(x) == IF x < 0 THEN -x ELSE x

InRange(p) == p[1] >= -90 /\ p[1] <= 90 /\ p[2] >= -180 /\ p[2] <= 180

Distance_points(p1, p2) ==
    IF InRange(p1) /\ InRange(p2)
    THEN [ok |-> TRUE, val |-> Abs(p1[1] - p2[1]) + Abs(p1[2] - p2[2])]
    ELSE [ok |-> FALSE, val |-> 0]

None == <<>>

RECURSIVE track_length_loop(_, _, _, _)
track_length_loop(points, i, len, prev_point) ==
    IF i > Len(points) THEN [ok |-> TRUE, val |-> len]
    ELSE LET p == points[i] IN
         IF prev_point # None
         THEN LET d == Distance_points(prev_point, p) IN
              IF d.ok THEN track_length_loop(points, i + 1, len + d.val, p)
              ELSE d
         ELSE track_length_loop(points, i + 1, len, p)

track_length_mutant(points) ==
    track_length_loop(points, 2, 0, None)

track_length(points) ==
    track_length_loop(points, 1, 0, None)

----------------------------------------------------------------------------
(* Splitter.split *)

Tracks == Len(gpx)

\* the position after cur in "for track / for segment / for point", or None
RECURSIVE NextCursor(_)
NextCursor_mutant(cur) ==
    IF Tracks = 0 \/ cur[1] > 1 THEN None
    ELSE IF cur[2] > Len(gpx[1]) THEN None
    ELSE IF cur[3] + 1 > Len(gpx[1][cur[2]]) THEN NextCursor(<<1, cur[2] + 1, 0>>)
    ELSE <<1, cur[2], cur[3] + 1>>

NextCursor(cur) ==
    IF cur[1] > Tracks THEN None
    ELSE IF cur[2] > Len(gpx[cur[1]]) THEN NextCursor(<<cur[1] + 1, 1, 0>>)
    ELSE IF cur[3] + 1 > Len(gpx[cur[1]][cur[2]])
         THEN NextCursor(<<cur[1], cur[2] + 1, 0>>)
    ELSE <<cur[1], cur[2], cur[3] + 1>>

PointAt(cur) == gpx[cur[1]][cur[2]][cur[3]]

SegmentFull_mutant(points, max) == Len(points) > max

\* len(track_segment.points) >= max_segment_points
SegmentFull(points, max) == Len(points) >= max

NewSegment_mutant(point) == <<>>

\* a new GPXTrackSegment with the point just read appended
NewSegment(point) == <<point>>

SaveRemainder_mutant(points) == Len(points) > 0

\* len(track_segment.points) > 1
SaveRemainder(points) == Len(points) > 1

NextCount_mutant(count) == count + 2

\* output_count += 1
NextCount(count) == count + 1

\* [(p.latitude, p.longitude) for p in track_segment.points]
Coordinates(points) ==
    [i \in 1..Len(points) |-> <<points[i].latitude, points[i].longitude>>]

NoFiles == [n \in {} |-> <<>>]

\* what stays of a file whose write failed after open() truncated it
Partial == <<"partial">>

\* split up to the loops: the counter, the parse, the empty segment
BeginSplit ==
    /\ pc = "main"
    /\ output_count' = 1
    /\ track_segment' = <<>>
    /\ cursor' = <<1, 1, 0>>
    /\ pc' = "loop"
    /\ UNCHANGED <<source, max_segment_points, debug, gpx, final, handed, disk,
                   logged, err, tl_points, tl_result>>

\* one turn of the innermost loop, up to the call of __write
AppendPoint ==
    /\ pc = "loop"
    /\ NextCursor(cursor) # None
    /\ cursor' = NextCursor(cursor)
    /\ track_segment' = Append(track_segment, PointAt(cursor'))
    /\ IF SegmentFull(track_segment', max_segment_points)
       THEN pc' = "log" /\ final' = FALSE
       ELSE pc' = "loop" /\ final' = final
    /\ UNCHANGED <<source, max_segment_points, debug, gpx, output_count, handed,
                   disk, logged, err, tl_points, tl_result>>

\* the loops are over: the remainder is saved or dropped
EndOfInput ==
    /\ pc = "loop"
    /\ NextCursor(cursor) = None
    /\ IF SaveRemainder(track_segment)
       THEN pc' = "log" /\ final' = TRUE
       ELSE pc' = "done" /\ final' = final
    /\ UNCHANGED <<source, max_segment_points, debug, gpx, cursor, track_segment,
                   output_count, handed, disk, logged, err, tl_points, tl_result>>

\* a wrong debug_enabled: the length is computed whatever the log level
LogTrackLen_mutant ==
    /\ pc = "log"
    /\ track_length(Coordinates(track_segment)).ok
    /\ logged' = Append(logged, track_length(Coordinates(track_segment)).val)
    /\ pc' = "write"
    /\ UNCHANGED <<source, max_segment_points, debug, gpx, cursor, track_segment,
                   output_count, final, handed, disk, err, tl_points, tl_result>>

\* __log_track_len behind debug_enabled: nothing, or the length is logged
LogTrackLen ==
    /\ pc = "log"
    /\ IF debug
       THEN /\ track_length(Coordinates(track_segment)).ok
            /\ logged' = Append(logged, track_length(Coordinates(track_segment)).val)
       ELSE logged' = logged
    /\ pc' = "write"
    /\ UNCHANGED <<source, max_segment_points, debug, gpx, cursor, track_segment,
                   output_count, final, handed, disk, err, tl_points, tl_result>>

\* __log_track_len: haversine raises, nothing catches it
LogTrackLenRaises ==
    /\ pc = "log"
    /\ debug
    /\ ~track_length(Coordinates(track_segment)).ok
    /\ err' = "ValueError"
    /\ pc' = "failed"
    /\ UNCHANGED <<source, max_segment_points, debug, gpx, cursor, track_segment,
                   output_count, final, handed, disk, logged, tl_points, tl_result>>

\* Writer.write succeeds, and split goes on after __write
WriterWrite ==
    /\ pc = "write"
    /\ handed' = Append(handed, [name |-> next_name(output_count),
                                 points |-> track_segment])
    /\ disk' = (next_name(output_count) :> track_segment) @@ disk
    /\ IF final
       THEN pc' = "done" /\ UNCHANGED <<output_count, track_segment>>
       ELSE /\ output_count' = NextCount(output_count)
            /\ track_segment' = NewSegment(PointAt(cursor))
            /\ pc' = "loop"
    /\ UNCHANGED <<source, max_segment_points, debug, gpx, cursor, final, logged,
                   err, tl_points, tl_result>>

\* a wrong handling of a failed write: the error is swallowed
WriterWriteFails_mutant ==
    /\ pc = "write"
    /\ handed' = Append(handed, [name |-> next_name(output_count),
                                 points |-> track_segment])
    /\ err' = "OSError"
    /\ IF final
       THEN pc' = "done" /\ UNCHANGED <<output_count, track_segment>>
       ELSE /\ output_count' = NextCount(output_count)
            /\ track_segment' = NewSegment(PointAt(cursor))
            /\ pc' = "loop"
    /\ UNCHANGED <<source, max_segment_points, debug, gpx, cursor, final, logged,
                   disk, tl_points, tl_result>>

\* Writer.write fails in open() or in f.write(): the exception ends the run
WriterWriteFails ==
    /\ pc = "write"
    /\ handed' = Append(handed, [name |-> next_name(output_count),
                                 points |-> track_segment])
    /\ \/ disk' = disk
       \/ disk' = (next_name(output_count) :> Partial) @@ disk
    /\ err' = "OSError"
    /\ pc' = "failed"
    /\ UNCHANGED <<source, max_segment_points, debug, gpx, cursor, track_segment,
                   output_count, final, logged, tl_points, tl_result>>

\* the same command is run again: a new process, the same files
Restart ==
    /\ pc \in {"done", "failed"}
    /\ pc' = "main"
    /\ cursor' = <<1, 1, 0>>
    /\ track_segment' = <<>>
    /\ output_count' = 0
    /\ final' = FALSE
    /\ handed' = <<>>
    /\ logged' = <<>>
    /\ err' = "none"
    /\ UNCHANGED <<source, max_segment_points, debug, gpx, disk, tl_points, tl_result>>

Locals ==
    /\ pc = "main"
    /\ cursor = <<1, 1, 0>>
    /\ track_segment = <<>>
    /\ output_count = 0
    /\ final = FALSE
    /\ handed = <<>>
    /\ disk = NoFiles
    /\ logged = <<>>
    /\ err = "none"
    /\ tl_points = <<>>
    /\ tl_result = [ok |-> TRUE, val |-> 0]

InitSmall ==
    /\ source \in Sources
    /\ max_segment_points \in 0..MaxSegmentPoints
    /\ debug \in BOOLEAN
    /\ \E toks \in Shapes : \E bad \in 0..NumPoints(toks) : gpx = MakeGpx(toks, bad)
    /\ Locals

InitScenarioA ==
    /\ source = <<"d", "/", "a", ".", "g", "p", "x">>
    /\ max_segment_points = DefaultPoints
    /\ debug = FALSE
    /\ \E lens \in ScenarioALengths : gpx = ScenarioAGpx(lens)
    /\ Locals

Init == InitSmall \/ InitScenarioA

Next ==
    \/ BeginSplit
    \/ AppendPoint
    \/ EndOfInput
    \/ LogTrackLen
    \/ LogTrackLenRaises
    \/ WriterWrite
    \/ WriterWriteFails
    \/ Restart

Spec == Init /\ [][Next]_vars

----------------------------------------------------------------------------
(* Distance.track_length called alone, on any short list of coordinates *)

Coords == {<<40, 0>>, <<41, 3>>, <<42, 1>>, <<200, 0>>}

PointLists == UNION {[1..n -> Coords] : n \in 0..MaxLen}

InitDist ==
    /\ source = <<"b", ".", "x">>
    /\ max_segment_points = DefaultPoints
    /\ debug = FALSE
    /\ gpx = <<>>
    /\ cursor = <<1, 1, 0>>
    /\ track_segment = <<>>
    /\ output_count = 0
    /\ final = FALSE
    /\ handed = <<>>
    /\ disk = NoFiles
    /\ logged = <<>>
    /\ err = "none"
    /\ pc = "dist"
    /\ tl_points \in PointLists
    /\ tl_result = [ok |-> TRUE, val |-> 0]

CallTrackLength ==
    /\ pc = "dist"
    /\ tl_result' = track_length(tl_points)
    /\ pc' = "returned"
    /\ UNCHANGED <<source, max_segment_points, debug, gpx, cursor, track_segment,
                   output_count, final, handed, disk, logged, err, tl_points>>

NextDist == CallTrackLength

SpecDist == InitDist /\ [][NextDist]_vars

----------------------------------------------------------------------------
(* The linearised point stream and the units it must give *)

RECURSIVE PointsBefore(_, _)
PointsBefore(t, s) ==
    IF s > 1 THEN PointsBefore(t, s - 1) + Len(gpx[t][s - 1])
    ELSE IF t > 1 THEN PointsBefore(t - 1, Len(gpx[t - 1]) + 1)
    ELSE 0

Total == PointsBefore(Tracks + 1, 1)

SegmentsOf == UNION {{<<t, s>> : s \in 1..Len(gpx[t])} : t \in 1..Tracks}

\* track order, then segment order, then point order
Stream ==
    [i \in 1..Total |->
        LET ts == CHOOSE x \in SegmentsOf :
                    /\ PointsBefore(x[1], x[2]) < i
                    /\ i <= PointsBefore(x[1], x[2]) + Len(gpx[x[1]][x[2]])
        IN gpx[ts[1]][ts[2]][i - PointsBefore(ts[1], ts[2])]]

Units == [k \in 1..Len(handed) |-> handed[k].points]

\* the units of a stream P for a bound m >= 2, position by position
ExpectedUnits(P, m) ==
    LET n == Len(P)
        q == IF n = 0 THEN 0 ELSE (n - 1) \div (m - 1)
        rest == n - q * (m - 1)
        count == IF rest > 1 THEN q + 1 ELSE q
    IN [k \in 1..count |->
          IF k <= q THEN SubSeq(P, (k - 1) * (m - 1) + 1, (k - 1) * (m - 1) + m)
          ELSE SubSeq(P, q * (m - 1) + 1, n)]

\* the units in emission order, the first point of every unit after the first dropped
RECURSIVE Reassembled(_)
Reassembled(k) ==
    IF k = 0 THEN <<>>
    ELSE IF k = 1 THEN handed[1].points
    ELSE Reassembled(k - 1) \o Tail(handed[k].points)

Ids(points) == {points[i].id : i \in 1..Len(points)}

CharValue(c) == CHOOSE d \in 0..9 : Digit(d) = c

RECURSIVE DecimalValue(_)
DecimalValue(s) ==
    IF Len(s) = 0 THEN 0
    ELSE 10 * DecimalValue(SubSeq(s, 1, Len(s) - 1)) + CharValue(s[Len(s)])

BaseName == RsplitHead(PathName(source))

----------------------------------------------------------------------------
(* The claims *)

\* C1, as stated: for every input and every maxPoints >= 2, also an input of
\* 0 or 1 points, the emitted units with the first point of every unit after
\* the first dropped, concatenated, are the input stream.
C1_LosslessEveryInput ==
    (pc = "done" /\ max_segment_points >= 2)
        => Reassembled(Len(handed)) = Stream

\* C1, amended: for every maxPoints >= 2 and every input that has not exactly
\* one point, the emitted units with the first point of every unit after the
\* first dropped, concatenated, are the input stream; an input of exactly one
\* point gives no unit.
C1_Lossless ==
    (pc = "done" /\ max_segment_points >= 2)
        => IF Total = 1 THEN handed = <<>>
           ELSE Reassembled(Len(handed)) = Stream

C1_Witness ==
    /\ pc = "done"
    /\ max_segment_points >= 2
    /\ Total >= 4
    /\ Len(handed) >= 2
    /\ Tracks >= 2

\* C2: for maxPoints >= 2 every unit handed to the writer other than the last
\* has exactly maxPoints points, the last has between 2 and maxPoints points.
C2_BoundRespected ==
    max_segment_points >= 2
        => \A k \in 1..Len(handed) :
              /\ Len(handed[k].points) >= 2
              /\ Len(handed[k].points) <= max_segment_points
              /\ k < Len(handed) => Len(handed[k].points) = max_segment_points

C2_Witness ==
    /\ pc = "done"
    /\ max_segment_points >= 3
    /\ Len(handed) >= 2
    /\ Len(handed[Len(handed)].points) < max_segment_points

\* C3: the last point of a unit is the first point of the next unit, and the
\* two units share that one input position only.
C3_OverlapContinuity ==
    \A k \in 1..(Len(handed) - 1) :
        LET a == handed[k].points
            b == handed[k + 1].points
        IN /\ Len(a) > 0
           /\ Len(b) > 0
           /\ a[Len(a)] = b[1]
           /\ Ids(a) \cap Ids(b) = {b[1].id}

C3_Witness ==
    /\ Len(handed) >= 3
    /\ max_segment_points >= 2

\* C4: the k-th unit handed to the writer in a run is named {baseName}_{k},
\* k = 1, 2, 3, ... without gaps, in every run.
C4_MonotonicNaming ==
    \A k \in 1..Len(handed) :
        LET name == handed[k].name
            n == Len(BaseName)
        IN /\ Len(name) >= n + 2
           /\ SubSeq(name, 1, n) = BaseName
           /\ name[n + 1] = "_"
           /\ DecimalValue(SubSeq(name, n + 2, Len(name))) = k

\* a later run (the files of an earlier run are there) has named two units
C4_Witness ==
    /\ max_segment_points >= 2
    /\ Len(handed) = 2
    /\ Cardinality(DOMAIN disk) >= 3
    /\ pc = "loop"

\* C5: for maxPoints >= 2 an input of n <= maxPoints points gives no unit when
\* n <= 1 and one unit of all n points when 2 <= n <= maxPoints.
C5_SmallInputs ==
    (pc = "done" /\ max_segment_points >= 2 /\ Total <= max_segment_points)
        => /\ Total <= 1 => handed = <<>>
           /\ Total >= 2 => (Len(handed) = 1 /\ handed[1].points = Stream)

C5_Witness ==
    /\ pc = "done"
    /\ max_segment_points >= 2
    /\ Total = max_segment_points
    /\ Len(handed) = 1

\* C6: the units are those of the linearised stream, wherever the track and
\* segment boundaries fall; 600 points in 3 tracks of one segment each with
\* maxPoints = 500 give 2 units, of 500 and of 101 points.
C6_Flattening ==
    (pc = "done" /\ max_segment_points >= 2)
        => /\ Units = ExpectedUnits(Stream, max_segment_points)
           /\ (/\ max_segment_points = 500
               /\ Total = 600
               /\ Tracks = 3
               /\ \A t \in 1..Tracks : Len(gpx[t]) = 1)
              => /\ Len(handed) = 2
                 /\ Len(handed[1].points) = 500
                 /\ Len(handed[2].points) = 101

C6_Witness ==
    /\ pc = "done"
    /\ max_segment_points = 500
    /\ Total = 600
    /\ Tracks = 3
    /\ Len(gpx[1]) = 1
    /\ Len(handed) = 2

\* C7: with maxPoints < 2 the run fails with InvalidConfiguration before the
\* input is read, and no unit is handed to the writer.
C7_InvalidConfiguration ==
    max_segment_points < 2
        => /\ pc \in {"main", "failed"}
           /\ pc = "failed" => err = "InvalidConfiguration"
           /\ cursor = <<1, 1, 0>>
           /\ handed = <<>>

\* C8: a failure of the length computation does not end the run: a run fails
\* only by a failed write.
C8_LoggingFailureIsolated ==
    /\ err # "ValueError"
    /\ pc = "failed" => err = "OSError"

\* C9: when Writer.write fails for the k-th unit the run is over, no unit
\* after the k-th is handed to the writer, the k-th is handed over once, and
\* the files of the units 1..k-1 hold their points.
C9_FailFastWrite ==
    err = "OSError"
        => /\ pc = "failed"
           /\ Len(handed) >= 1
           /\ output_count = Len(handed)
           /\ \A j \in 1..(Len(handed) - 1) :
                 /\ handed[j].name # handed[Len(handed)].name
                 /\ handed[j].name \in DOMAIN disk
                 /\ disk[handed[j].name] = handed[j].points

C9_Witness ==
    /\ max_segment_points >= 2
    /\ err = "OSError"
    /\ pc = "failed"
    /\ Len(handed) >= 3

\* the sum of the pair distances of the first k consecutive pairs
RECURSIVE PairSum(_, _)
PairSum(points, k) ==
    IF k <= 0 THEN 0
    ELSE PairSum(points, k - 1) + Distance_points(points[k], points[k + 1]).val

\* C10: track_length(points) is the sum of the pair distance over the
\* consecutive pairs, 0 for a list of 0 or 1 points, and leaves the list as
\* it is (it raises when a pair distance raises).
C10_TrackLength ==
    [][(pc = "dist" /\ pc' = "returned")
        => /\ tl_points' = tl_points
           /\ Len(tl_points) <= 1 => tl_result' = [ok |-> TRUE, val |-> 0]
           /\ IF \A i \in 1..(Len(tl_points) - 1) :
                    Distance_points(tl_points[i], tl_points[i + 1]).ok
              THEN tl_result' = [ok |-> TRUE,
                                 val |-> PairSum(tl_points, Len(tl_points) - 1)]
              ELSE ~tl_result'.ok]_vars

C10_Witness ==
    /\ pc = "returned"
    /\ Len(tl_points) = 3
    /\ tl_result.ok
    /\ tl_result.val > 0

\* the units of a stream P for any bound m, from the stream alone: below 2
\* every point read closes a unit, of the seed and that point
ExpectedUnitsAny(P, m) ==
    IF m >= 2 THEN ExpectedUnits(P, m)
    ELSE [k \in 1..Len(P) |-> IF k = 1 THEN <<P[1]>> ELSE <<P[k - 1], P[k]>>]

\* the calls of Writer.write of a whole run, from the source, the stream and
\* the bound alone: the log level is no part of it
ExpectedHanded ==
    LET u == ExpectedUnitsAny(Stream, max_segment_points)
    IN [k \in 1..Len(u) |-> [name |-> BaseName \o <<"_">> \o str(k),
                             points |-> u[k]]]

\* C11: when no distance computation fails, the (name, points) pairs handed to
\* the writer are those the input and maxPoints alone give, with logging
\* enabled as with logging disabled; with logging disabled no length is
\* computed; with logging enabled the length of every unit is computed before
\* the unit is handed to the writer.
C11_LoggingNoInfluence ==
    /\ (err # "ValueError" /\ (handed # <<>> \/ pc = "done"))
        => LET e == ExpectedHanded
           IN /\ Len(handed) <= Len(e)
              /\ handed = SubSeq(e, 1, Len(handed))
              /\ pc = "done" => handed = e
    /\ ~debug => logged = <<>>
    /\ debug
        => /\ Len(logged) = Len(handed) + (IF pc = "write" THEN 1 ELSE 0)
           /\ \A k \in 1..Len(handed) :
                 /\ track_length(Coordinates(handed[k].points)).ok
                 /\ logged[k] = track_length(Coordinates(handed[k].points)).val
           /\ pc = "write"
                => logged[Len(logged)] = track_length(Coordinates(track_segment)).val

C11_Witness ==
    /\ debug
    /\ pc = "done"
    /\ max_segment_points >= 2
    /\ Len(handed) >= 2
    /\ Len(logged) = Len(handed)
    /\ logged[1] > 0

====
